---- MODULE Spec2Model ----
(***************************************************************************)
(* Model of src/solver/main.py: the POST /solve handler solve_constraint.   *)
(* The handler is an `async def` with no await, so the event loop runs one  *)
(* request at a time; the model serves requests one after another and takes *)
(* one step per statement of the handler.  The solving engine (z3) is       *)
(* modelled by what the handler calls on it: Solver(), from_string(),       *)
(* check(), model(), the is_* probes and the as_* decoders.                 *)
(***************************************************************************)
EXTENDS Integers, Sequences, FiniteSets, TLC

\* ------------------------------------------------------------------- state
VARIABLES
  pc,            \* the handler's position: idle, from_string, check, branch, loop, except, done
  handled,       \* requests received so far
  request,       \* request.constraint of the request being handled
  s,             \* the solver the handler last created
  check_result,  \* the verdict of s.check()
  model_result,  \* s.model()
  i,             \* the loop's position in model_result
  model_array,   \* the entries appended so far
  exc,           \* the exception in flight, as str(e)
  response,      \* what the request is answered with
  calls,         \* the engine calls this request has made, in order
  earlier        \* an earlier request and its answer, as a client still holds them

vars == <<pc, handled, request, s, check_result, model_result, i, model_array,
          exc, response, calls, earlier>>

\* ------------------------------------------------------------------ bounds
\* number of requests a behaviour serves
NumReqs == 3
\* rational model values are num/den with |num| <= MaxNum, 1 <= den <= MaxDen
MaxNum == 2
MaxDen == 3

\* ------------------------------------------------------- program constants
\* as_decimal(10): fractional digits asked of the engine
Precision == 10

\* --------------------------------------------------------- text and digits
DigitChars == <<"0", "1", "2", "3", "4", "5", "6", "7", "8", "9">>

DigitChar(d) == DigitChars[d + 1]

IsDigitChar(c) == \E d \in 0..9 : DigitChars[d + 1] = c

DigitVal(c) == CHOOSE d \in 0..9 : DigitChars[d + 1] = c

Chars(digits) == [k \in 1..Len(digits) |-> DigitChar(digits[k])]

RECURSIVE NatDigits(_)
NatDigits(n) == IF n < 10 THEN <<n>> ELSE NatDigits(n \div 10) \o <<n % 10>>

RECURSIVE StripZeros(_)
StripZeros(ds) ==
  IF Len(ds) > 1 /\ ds[1] = 0 THEN StripZeros(Tail(ds)) ELSE ds

Abs(n) == IF n < 0 THEN -n ELSE n

RECURSIVE Gcd(_, _)
Gcd(a, b) == IF b = 0 THEN a ELSE Gcd(b, a % b)

\* ------------------------------------------------------------ engine values
\* An integer numeral of unbounded magnitude: sign and decimal digits.
IntVal(neg, digits) == [kind |-> "int", neg |-> neg, digits |-> digits]

\* 2^63 = 9223372036854775808
Pow63 == <<9, 2, 2, 3, 3, 7, 2, 0, 3, 6, 8, 5, 4, 7, 7, 5, 8, 0, 8>>
Pow63Less1 == <<9, 2, 2, 3, 3, 7, 2, 0, 3, 6, 8, 5, 4, 7, 7, 5, 8, 0, 7>>
Pow63Plus1 == <<9, 2, 2, 3, 3, 7, 2, 0, 3, 6, 8, 5, 4, 7, 7, 5, 8, 0, 9>>

IntValues ==
  { IntVal(FALSE, <<0>>), IntVal(FALSE, <<5>>), IntVal(FALSE, <<6>>),
    IntVal(TRUE, <<3>>), IntVal(FALSE, <<4, 2>>),
    IntVal(FALSE, Pow63Less1), IntVal(FALSE, Pow63),
    IntVal(TRUE, Pow63), IntVal(TRUE, Pow63Plus1) }

BoolValues == { [kind |-> "bool", b |-> TRUE], [kind |-> "bool", b |-> FALSE] }

\* A numeral of sort Real: a reduced fraction, integer-valued when den = 1.
RatVal(n, d) == [kind |-> "rat", num |-> n, den |-> d]

RatValues ==
  { RatVal(p[1], p[2]) :
      p \in { q \in ((-MaxNum)..MaxNum) \X (1..MaxDen) : Gcd(Abs(q[1]), q[2]) = 1 } }

StrValues ==
  { [kind |-> "str", content |-> <<>>],
    [kind |-> "str", content |-> <<"a", "b">>] }

\* Values no probe recognises: an algebraic number, a value of an
\* uninterpreted sort, a function interpretation.
OtherValues ==
  { [kind |-> "alg", text |-> <<"1.4142135623?">>],
    [kind |-> "usort", text |-> <<"U!val!0">>],
    [kind |-> "func", text |-> <<"[else -> 0]">>] }

Values == IntValues \cup BoolValues \cup RatValues \cup StrValues \cup OtherValues

SortOf(v) ==
  CASE v.kind = "int" -> "Int"
    [] v.kind = "bool" -> "Bool"
    [] v.kind \in {"rat", "alg"} -> "Real"
    [] v.kind = "str" -> "String"
    [] v.kind = "usort" -> "U"
    [] OTHER -> "Fun"

\* ------------------------------------------------------ constraint programs
\* A constraint text, by what the engine's parser makes of it: whether it is
\* syntactically well formed, the symbols it declares, and its assertions.
\* An assertion pins a symbol to a value ("eq"), is one the engine cannot
\* decide ("hard"), or is one on which check() raises ("fault").
Eq(sym, val) == [op |-> "eq", sym |-> sym, val |-> val]
Hard(sym) == [op |-> "hard", sym |-> sym]
Fault(sym) == [op |-> "fault", sym |-> sym]

AtomSort(a) == IF a.op = "eq" THEN SortOf(a.val) ELSE "Int"

RECURSIVE DeclsOf(_, _)
DeclsOf(asserts, seen) ==
  IF asserts = <<>> THEN <<>>
  ELSE LET a == Head(asserts) IN
       IF a.sym \in seen THEN DeclsOf(Tail(asserts), seen)
       ELSE <<[name |-> a.sym, sort |-> AtomSort(a)]>>
              \o DeclsOf(Tail(asserts), seen \cup {a.sym})

\* The program declaring the symbols its assertions use, plus `extra`
\* declarations that no assertion mentions.
Program(asserts, extra) ==
  [wellformed |-> TRUE, decls |-> DeclsOf(asserts, {}) \o extra, asserts |-> asserts]

\* "not a valid constraint"
Garbage == [wellformed |-> FALSE, decls |-> <<>>, asserts |-> <<>>]

CoreValues ==
  { IntVal(FALSE, <<5>>), IntVal(FALSE, <<6>>), RatVal(1, 3),
    [kind |-> "str", content |-> <<"a", "b">>] }

CoreAtoms(sym) == { Eq(sym, v) : v \in CoreValues } \cup { Hard(sym) }

AssertSeqs ==
  { <<>> }
  \cup { <<a>> : a \in { Eq("x", v) : v \in Values } \cup { Hard("x"), Fault("x") } }
  \cup { <<a, b>> : a \in CoreAtoms("x"), b \in CoreAtoms("x") \cup CoreAtoms("y") }

Unconstrained == <<[name |-> "u", sort |-> "Int"]>>

Programs ==
  { Garbage }
  \cup { Program(a, <<>>) : a \in AssertSeqs }
  \cup { Program(a, Unconstrained) :
           a \in { <<>> } \cup { <<b>> : b \in CoreAtoms("x") } }

\* ------------------------------------------------------------ engine calls
\* One solver kept for the whole process and handed to every request.
SharedSolver == s

\* Solver(): a new solver with an empty assertion stack.
Solver == [assertions |-> <<>>]

\* The parser accepts a text when it is well formed and every assertion is
\* well sorted over the declared symbols.
ParseOK(text) ==
  /\ text.wellformed
  /\ \A k \in 1..Len(text.asserts) :
       \E j \in 1..Len(text.decls) :
         /\ text.decls[j].name = text.asserts[k].sym
         /\ text.decls[j].sort = AtomSort(text.asserts[k])

ParseError == <<"(error \"line 1 column 1: invalid command\")">>

\* Solver.from_string: the text's assertions are added to the solver.
from_string(solver, text) == [assertions |-> solver.assertions \o text.asserts]

Conflict(as) ==
  \E j, k \in 1..Len(as) :
    /\ as[j].op = "eq" /\ as[k].op = "eq"
    /\ as[j].sym = as[k].sym /\ as[j].val # as[k].val

CheckRaises(solver) ==
  \E k \in 1..Len(solver.assertions) : solver.assertions[k].op = "fault"

CheckError == <<"b'engine failure'">>

\* Solver.check(): the verdict.
check(solver) ==
  IF Conflict(solver.assertions) THEN "unsat"
  ELSE IF \E k \in 1..Len(solver.assertions) : solver.assertions[k].op = "hard"
       THEN "unknown"
       ELSE "sat"

RECURSIVE Interps(_, _)
Interps(as, seen) ==
  IF as = <<>> THEN <<>>
  ELSE LET a == Head(as) IN
       IF a.sym \in seen THEN Interps(Tail(as), seen)
       ELSE <<[decl |-> [name |-> a.sym, sort |-> AtomSort(a)], val |-> a.val]>>
              \o Interps(Tail(as), seen \cup {a.sym})

\* Solver.model(): the declarations the model interprets, in the engine's
\* order, each with its value.  Only symbols the assertions mention appear.
model(solver) == Interps(solver.assertions, {})

\* for decl in model_result: the k-th declaration enumerated
DeclAt(m, k) == m[k].decl

\* model_result[decl]: the interpretation of the first entry for decl
Interp(m, decl) ==
  m[CHOOSE k \in 1..Len(m) :
      m[k].decl = decl /\ \A j \in 1..(k - 1) : m[j].decl # decl].val

\* str(decl)
StrDecl(decl) == <<decl.name>>

\* str(val): the engine's textual rendering of a value
StrVal(v) ==
  CASE v.kind = "int" -> (IF v.neg THEN <<"-">> ELSE <<>>) \o Chars(v.digits)
    [] v.kind = "bool" -> (IF v.b THEN <<"True">> ELSE <<"False">>)
    [] v.kind = "rat" ->
         (IF v.num < 0 THEN <<"-">> ELSE <<>>) \o Chars(NatDigits(Abs(v.num)))
           \o (IF v.den = 1 THEN <<>> ELSE <<"/">> \o Chars(NatDigits(v.den)))
    [] v.kind = "str" -> <<"\"">> \o v.content \o <<"\"">>
    [] OTHER -> v.text

\* ------------------------------------------------------------------ probes
is_int(v) == v.kind = "int"

is_bool(v) == v.kind = "bool"

is_rational_value(v) == v.kind = "rat"

is_string_value(v) == v.kind = "str"

\* ---------------------------------------------------------------- decoders
\* IntNumRef.as_string(): the numeral in decimal
as_string_num(v) == (IF v.neg THEN <<"-">> ELSE <<>>) \o Chars(v.digits)

\* Python int(str): an integer of unbounded magnitude
PyInt(str) ==
  LET neg == Len(str) > 0 /\ str[1] = "-"
      body == IF neg THEN Tail(str) ELSE str
      digits == StripZeros([k \in 1..Len(body) |-> DigitVal(body[k])])
  IN [t |-> "int", neg |-> neg /\ digits # <<0>>, digits |-> digits]

\* Magnitudes in decimal, without leading zeros: a < b
MagLess(a, b) ==
  \/ Len(a) < Len(b)
  \/ /\ Len(a) = Len(b)
     /\ \E k \in 1..Len(a) : a[k] < b[k] /\ \A j \in 1..(k - 1) : a[j] = b[j]

\* -2^63 <= n <= 2^63 - 1
InInt64(n) == IF n.neg THEN ~MagLess(Pow63, n.digits) ELSE MagLess(n.digits, Pow63)

\* A decoder that converts to a 64-bit signed integer, saturating at the ends
\* of the range.
as_long_int64(v) ==
  LET exact == PyInt(as_string_num(v))
  IN IF InInt64(exact) THEN exact
     ELSE [t |-> "int", neg |-> exact.neg,
           digits |-> IF exact.neg THEN Pow63 ELSE Pow63Less1]

\* val.as_long(): int(self.as_string())
as_long(v) == PyInt(as_string_num(v))

\* bool(val) of a Boolean model value
PyBool(v) == [t |-> "bool", b |-> v.b]

RECURSIVE FracDigits(_, _, _)
FracDigits(r, den, k) ==
  IF k = 0 \/ r = 0 THEN <<>>
  ELSE <<(r * 10) \div den>> \o FracDigits((r * 10) % den, den, k - 1)

RECURSIVE FracRem(_, _, _)
FracRem(r, den, k) ==
  IF k = 0 \/ r = 0 THEN r ELSE FracRem((r * 10) % den, den, k - 1)

\* val.as_decimal(prec): at most prec fractional digits, truncated, and a
\* trailing "?" when the expansion does not end there.
as_decimal(v, prec) ==
  LET a == Abs(v.num)
      r == a % v.den
  IN (IF v.num < 0 THEN <<"-">> ELSE <<>>)
       \o Chars(NatDigits(a \div v.den))
       \o (IF r = 0 THEN <<>>
           ELSE <<".">> \o Chars(FracDigits(r, v.den, prec))
                  \o (IF FracRem(r, v.den, prec) # 0 THEN <<"?">> ELSE <<>>))

\* Python float(str): a sign, digits and an optional fraction; any other
\* character raises ValueError.  The float is kept as the decimal it reads.
PyFloat(str) ==
  LET neg == Len(str) > 0 /\ str[1] = "-"
      body == IF neg THEN Tail(str) ELSE str
      dots == { k \in 1..Len(body) : body[k] = "." }
      dot == IF dots = {} THEN Len(body) + 1 ELSE CHOOSE k \in dots : \A j \in dots : k <= j
      ip == SubSeq(body, 1, dot - 1)
      fp == SubSeq(body, dot + 1, Len(body))
      valid == /\ Len(ip) > 0
               /\ \A k \in 1..Len(ip) : IsDigitChar(ip[k])
               /\ \A k \in 1..Len(fp) : IsDigitChar(fp[k])
  IN IF valid
     THEN [raised |-> FALSE,
           value |-> [t |-> "float", neg |-> neg,
                      int |-> [k \in 1..Len(ip) |-> DigitVal(ip[k])],
                      frac |-> [k \in 1..Len(fp) |-> DigitVal(fp[k])]]]
     ELSE [raised |-> TRUE,
           exc |-> <<"could not convert string to float: ">> \o str]

\* val.as_string() of a string value: the content without the quotes
as_string(v) == [t |-> "str", s |-> v.content]

\* The if / elif chain of the loop body: the value, or the exception raised.
Decode(val) ==
  IF is_int(val) THEN [raised |-> FALSE, value |-> as_long(val)]
  ELSE IF is_bool(val) THEN [raised |-> FALSE, value |-> PyBool(val)]
  ELSE IF is_rational_value(val) THEN PyFloat(as_decimal(val, Precision))
  ELSE IF is_string_value(val) THEN [raised |-> FALSE, value |-> as_string(val)]
  ELSE [raised |-> FALSE, value |-> [t |-> "str", s |-> StrVal(val)]]

\* An insertion at the front of the list.
append_front(arr, decl, value) == <<[name |-> StrDecl(decl), value |-> value]>> \o arr

\* model_array.append({"name": str(decl), "value": value})
append(arr, decl, value) == Append(arr, [name |-> StrDecl(decl), value |-> value])

\* ----------------------------------------------------- the handler's steps
\* Optional[List[dict]]: None, or a list
None == [isNone |-> TRUE, list |-> <<>>]
Some(list) == [isNone |-> FALSE, list |-> list]

NoRequest == Garbage
NoSolver == [assertions |-> <<>>]
NoResponse == [status |-> 0, check_result |-> "none", model |-> None, detail |-> <<>>]
NoEarlier ==
  [held |-> FALSE, failedSince |-> FALSE, constraint |-> NoRequest,
   response |-> NoResponse]

Init ==
  /\ pc = "idle"
  /\ handled = 0
  /\ request = NoRequest
  /\ s = NoSolver
  /\ check_result = "none"
  /\ model_result = <<>>
  /\ i = 0
  /\ model_array = <<>>
  /\ exc = <<>>
  /\ response = NoResponse
  /\ calls = <<>>
  /\ earlier = NoEarlier

\* SolverResponse(check_result=..., model=...), answered with status 200
SolverResponse(label, m) ==
  [status |-> 200, check_result |-> label, model |-> m, detail |-> <<>>]

ErrorPrefix == <<"Error processing constraint: ">>

\* HTTPException(status_code=400, detail=f"Error processing constraint: {str(e)}")
HTTPException(e) ==
  [status |-> 400, check_result |-> "none", model |-> None, detail |-> ErrorPrefix \o e]

\* A POST /solve arrives; the handler enters the try block and creates its
\* solver.
StartRequest ==
  /\ pc = "idle"
  /\ handled < NumReqs
  /\ \E c \in Programs : request' = c
  /\ handled' = handled + 1
  /\ s' = Solver
  /\ calls' = <<"Solver">>
  /\ pc' = "from_string"
  /\ check_result' = "none"
  /\ model_result' = <<>>
  /\ i' = 0
  /\ model_array' = <<>>
  /\ exc' = <<>>
  /\ response' = NoResponse
  /\ UNCHANGED earlier

\* s.from_string(request.constraint)
FromString ==
  /\ pc = "from_string"
  /\ calls' = Append(calls, "from_string")
  /\ IF ParseOK(request)
     THEN /\ s' = from_string(s, request)
          /\ pc' = "check"
          /\ UNCHANGED exc
     ELSE /\ exc' = ParseError
          /\ pc' = "except"
          /\ UNCHANGED s
  /\ UNCHANGED <<handled, request, check_result, model_result, i, model_array,
                 response, earlier>>

\* check_result = s.check()
Check ==
  /\ pc = "check"
  /\ calls' = Append(calls, "check")
  /\ IF CheckRaises(s)
     THEN /\ exc' = CheckError
          /\ pc' = "except"
          /\ UNCHANGED check_result
     ELSE /\ check_result' = check(s)
          /\ pc' = "branch"
          /\ UNCHANGED exc
  /\ UNCHANGED <<handled, request, s, model_result, i, model_array, response, earlier>>

\* The model fetched whatever the verdict.
FetchModelAnyVerdict ==
  /\ pc = "branch"
  /\ calls' = Append(calls, "model")
  /\ IF check(s) = "sat" /\ ~CheckRaises(s)
     THEN /\ model_result' = model(s)
          /\ model_array' = <<>>
          /\ i' = 1
          /\ pc' = "loop"
          /\ UNCHANGED exc
     ELSE /\ exc' = <<"model is not available">>
          /\ pc' = "except"
          /\ UNCHANGED <<model_result, model_array, i>>
  /\ UNCHANGED <<handled, request, s, check_result, response, earlier>>

\* if check_result == sat: model_result = s.model(); model_array = []
\* (the engine has a model only after a sat verdict, and raises otherwise)
FetchModel ==
  /\ pc = "branch"
  /\ check_result = "sat"
  /\ calls' = Append(calls, "model")
  /\ IF check(s) = "sat" /\ ~CheckRaises(s)
     THEN /\ model_result' = model(s)
          /\ model_array' = <<>>
          /\ i' = 1
          /\ pc' = "loop"
          /\ UNCHANGED exc
     ELSE /\ exc' = <<"model is not available">>
          /\ pc' = "except"
          /\ UNCHANGED <<model_result, model_array, i>>
  /\ UNCHANGED <<handled, request, s, check_result, response, earlier>>

\* One iteration of `for decl in model_result`.
LoopStep ==
  /\ pc = "loop"
  /\ i <= Len(model_result)
  /\ LET decl == DeclAt(model_result, i)
         val == Interp(model_result, decl)
         d == Decode(val)
     IN IF d.raised
        THEN /\ exc' = d.exc
             /\ pc' = "except"
             /\ UNCHANGED <<model_array, i>>
        ELSE /\ model_array' = append(model_array, decl, d.value)
             /\ i' = i + 1
             /\ UNCHANGED <<exc, pc>>
  /\ UNCHANGED <<handled, request, s, check_result, model_result, response, calls,
                 earlier>>

\* return SolverResponse(check_result="sat", model=model_array)
ReturnSat ==
  /\ pc = "loop"
  /\ i > Len(model_result)
  /\ response' = SolverResponse("sat", Some(model_array))
  /\ pc' = "done"
  /\ UNCHANGED <<handled, request, s, check_result, model_result, i, model_array,
                 exc, calls, earlier>>

\* elif check_result == unsat: return SolverResponse("unsat", None)
ReturnUnsat ==
  /\ pc = "branch"
  /\ check_result = "unsat"
  /\ response' = SolverResponse("unsat", None)
  /\ pc' = "done"
  /\ UNCHANGED <<handled, request, s, check_result, model_result, i, model_array,
                 exc, calls, earlier>>

\* An undecided verdict answered with an empty list for the model.
ReturnUnknownEmptyModel ==
  /\ pc = "branch"
  /\ check_result \notin {"sat", "unsat"}
  /\ response' = SolverResponse("unknown", Some(<<>>))
  /\ pc' = "done"
  /\ UNCHANGED <<handled, request, s, check_result, model_result, i, model_array,
                 exc, calls, earlier>>

\* else: return SolverResponse("unknown", None)
ReturnUnknown ==
  /\ pc = "branch"
  /\ check_result \notin {"sat", "unsat"}
  /\ response' = SolverResponse("unknown", None)
  /\ pc' = "done"
  /\ UNCHANGED <<handled, request, s, check_result, model_result, i, model_array,
                 exc, calls, earlier>>

\* A handler that catches only the engine's own exception type: a ValueError
\* of a decoder escapes it and the framework answers 500.
HandleEngineExceptionOnly ==
  /\ pc = "except"
  /\ response' = IF Len(calls) = Len(<<"Solver", "from_string", "check", "model">>)
                  THEN [status |-> 500, check_result |-> "none", model |-> None,
                        detail |-> <<"Internal Server Error">>]
                  ELSE HTTPException(exc)
  /\ pc' = "done"
  /\ UNCHANGED <<handled, request, s, check_result, model_result, i, model_array,
                 exc, calls, earlier>>

\* except Exception as e: raise HTTPException(400, ...)
HandleException ==
  /\ pc = "except"
  /\ response' = HTTPException(exc)
  /\ pc' = "done"
  /\ UNCHANGED <<handled, request, s, check_result, model_result, i, model_array,
                 exc, calls, earlier>>

\* The answer is sent; the client may keep it to compare with a later one.
Deliver ==
  /\ pc = "done"
  /\ pc' = "idle"
  /\ earlier' \in
       { IF earlier.held /\ response.status = 400
         THEN [earlier EXCEPT !.failedSince = TRUE] ELSE earlier,
         [held |-> TRUE, failedSince |-> FALSE, constraint |-> request,
          response |-> response] }
  /\ UNCHANGED <<handled, request, s, check_result, model_result, i, model_array,
                 exc, response, calls>>

Next ==
  \/ StartRequest
  \/ FromString
  \/ Check
  \/ FetchModel
  \/ LoopStep
  \/ ReturnSat
  \/ ReturnUnsat
  \/ ReturnUnknown
  \/ HandleException
  \/ Deliver

Spec == Init /\ [][Next]_vars

\* ------------------------------------------------------------------ claims
InFlight == pc \in {"from_string", "check", "branch", "loop", "except"}

Labels == {"sat", "unsat", "unknown"}

IsSolverResponse(r) ==
  /\ r.status = 200
  /\ r.check_result \in Labels
  /\ r.detail = <<>>

IsError400(r) ==
  /\ r.status = 400
  /\ r.check_result = "none" /\ r.model = None
  /\ Len(r.detail) > 0
  /\ SubSeq(r.detail, 1, Len(ErrorPrefix)) = ErrorPrefix

\* the value of the k-th declaration the model enumerates
ValAt(k) == Interp(model_result, DeclAt(model_result, k))

\* C1: every request is answered with exactly one of a 200 SolverResponse and
\* a 400 whose detail is the non-empty "Error processing constraint: <message>";
\* an exception raised at any stage yields the 400 and no SolverResponse, and
\* no answer is a 500.
C1_AnswerIs200Or400 ==
  /\ InFlight => response = NoResponse
  /\ pc = "done" =>
       /\ IsSolverResponse(response) \/ IsError400(response)
       /\ ~(IsSolverResponse(response) /\ IsError400(response))
       /\ exc # <<>> => IsError400(response) /\ response.detail = ErrorPrefix \o exc
       /\ exc = <<>> => IsSolverResponse(response)

\* C1 witness: a decoder raised after a sat verdict and the request was
\* answered 400.
C1_Witness ==
  /\ pc = "done" /\ check_result = "sat" /\ exc # <<>>
  /\ response.status = 400

\* C2: in every SolverResponse check_result is the label of the verdict that
\* check() returned, and model is non-null exactly when it is "sat"; an
\* unknown verdict is answered 200 with "unknown" and a null model.
C2_LabelAndModelFollowVerdict ==
  /\ response.status = 200 =>
       /\ check_result \in Labels
       /\ response.check_result = check_result
       /\ ~response.model.isNone <=> response.check_result = "sat"
  /\ pc = "done" /\ check_result \in {"unsat", "unknown"} =>
       response = SolverResponse(check_result, None)

\* C2 witness: an unknown verdict answered 200.
C2_Witness ==
  /\ pc = "done" /\ check_result = "unknown"
  /\ response.status = 200 /\ response.model.isNone

\* C3: a valid satisfiable constraint is answered with a SolverResponse "sat"
\* whose model has as many entries as the constraint program declares symbols.
C3_SatModelCoversDeclarations ==
  pc = "done" /\ ParseOK(request) /\ check_result = "sat" =>
    /\ response.status = 200
    /\ response.check_result = "sat"
    /\ ~response.model.isNone
    /\ Len(response.model.list) = Len(request.decls)

\* C4: once check() has returned sat, no probe or decoder of the loop raises:
\* a sat verdict always ends in a 200 answer.
C4_SatAlwaysEndsIn200 ==
  /\ pc = "except" => check_result # "sat"
  /\ pc = "done" /\ check_result = "sat" => response.status = 200

\* C5: the model array returned on a sat verdict has one {name, value} entry
\* per declaration the engine's model enumerates, in the engine's order, the
\* k-th entry named by the k-th declaration's text.
C5_OneEntryPerDeclarationInOrder ==
  /\ pc = "loop" => Len(model_array) = i - 1
  /\ response.status = 200 /\ response.check_result = "sat" =>
       /\ ~response.model.isNone
       /\ Len(response.model.list) = Len(model_result)
       /\ \A k \in 1..Len(model_result) :
            /\ DOMAIN response.model.list[k] = {"name", "value"}
            /\ response.model.list[k].name = StrDecl(DeclAt(model_result, k))
            /\ response.model.list[k].value.t \in {"int", "bool", "float", "str"}

\* C5 witness: a returned model of two entries with different names.
C5_Witness ==
  /\ pc = "done" /\ response.status = 200 /\ ~response.model.isNone
  /\ Len(response.model.list) = Len(<<"x", "y">>)
  /\ response.model.list[1].name # response.model.list[2].name

\* the variant the dispatch order assigns a value: the first probe that holds
FirstProbe(val) ==
  IF is_int(val) THEN "int"
  ELSE IF is_bool(val) THEN "bool"
  ELSE IF is_rational_value(val) THEN "float"
  ELSE "str"

\* C6: every value of a sat model is converted to the variant of the first
\* probe that holds: integer, boolean, float, string, or the textual rendering.
C6_EveryValueConverted ==
  pc = "done" /\ check_result = "sat" =>
    \A k \in 1..Len(model_result) :
      /\ k <= Len(model_array)
      /\ model_array[k].value.t = FirstProbe(ValAt(k))
      /\ is_string_value(ValAt(k)) => model_array[k].value.s = ValAt(k).content
      /\ ValAt(k).kind \in {"alg", "usort", "func"} =>
           model_array[k].value.s = StrVal(ValAt(k))

Pairs(r) == { r.model.list[k] : k \in 1..Len(r.model.list) }

\* C7: two requests with the same constraint text are answered alike, whatever
\* was served between them: the same status, the same check_result and the
\* same set of {name, value} pairs.
C7_SameTextSameAnswer ==
  pc = "done" /\ earlier.held /\ earlier.constraint = request =>
    /\ response.status = earlier.response.status
    /\ response.check_result = earlier.response.check_result
    /\ response.model.isNone = earlier.response.model.isNone
    /\ Pairs(response) = Pairs(earlier.response)

\* C7 witness: a satisfiable text answered a second time, a failed request
\* having been served in between.
C7_Witness ==
  /\ pc = "done" /\ earlier.held /\ earlier.failedSince
  /\ earlier.constraint = request
  /\ response.status = 200 /\ response.check_result = "sat"
  /\ Len(response.model.list) > 0

\* C8 (as stated): every integer value decodes to the engine's integer exactly
\* and the decoded value lies in [-2^63, 2^63 - 1].
C8_IntegersExactAndInt64 ==
  \A k \in 1..Len(model_array) :
    is_int(ValAt(k)) =>
      /\ model_array[k].value.t = "int"
      /\ model_array[k].value.neg = ValAt(k).neg
      /\ model_array[k].value.digits = ValAt(k).digits
      /\ InInt64(model_array[k].value)

\* C8 (amended): every integer value decodes to the engine's integer exactly,
\* as an integer of unbounded magnitude; it lies in [-2^63, 2^63 - 1] exactly
\* when the engine's value does.
C8_IntegersExact ==
  \A k \in 1..Len(model_array) :
    is_int(ValAt(k)) =>
      /\ model_array[k].value.t = "int"
      /\ model_array[k].value.neg = ValAt(k).neg
      /\ model_array[k].value.digits = ValAt(k).digits
      /\ InInt64(model_array[k].value) <=> InInt64(ValAt(k))

\* C8 witness: an integer outside the 64-bit range was returned as it is.
C8_Witness ==
  /\ pc = "done" /\ response.status = 200 /\ ~response.model.isNone
  /\ \E k \in 1..Len(response.model.list) :
       /\ is_int(ValAt(k))
       /\ ~InInt64(ValAt(k))
       /\ response.model.list[k].value.digits = ValAt(k).digits

RECURSIVE NatOf(_)
NatOf(digits) ==
  IF digits = <<>> THEN 0
  ELSE NatOf(SubSeq(digits, 1, Len(digits) - 1)) * 10 + digits[Len(digits)]

\* the remainder left by dividing on through the digits of frac, or -1 when
\* a digit is not the quotient's
RECURSIVE RemAfter(_, _, _)
RemAfter(r, den, frac) ==
  IF frac = <<>> THEN r
  ELSE LET r2 == r * 10 - Head(frac) * den
       IN IF r2 < 0 \/ r2 >= den THEN -1 ELSE RemAfter(r2, den, Tail(frac))

\* f is the rational v cut after at most Precision fractional digits:
\* 0 <= |v| - |f| < 10^-Precision, with the sign of v
WithinPrecision(v, f) ==
  LET r0 == Abs(v.num) - NatOf(f.int) * v.den
      rem == RemAfter(r0, v.den, f.frac)
  IN /\ f.t = "float"
     /\ f.neg = (v.num < 0)
     /\ r0 >= 0 /\ r0 < v.den
     /\ Len(f.frac) <= Precision
     /\ rem = 0 \/ (rem > 0 /\ Len(f.frac) = Precision)

\* C9: every rational value of a sat model is emitted as a float within 10
\* fractional digits of it, whether or not its expansion ends within them.
C9_RationalsDecodeToFloats ==
  pc = "done" /\ check_result = "sat" =>
    \A k \in 1..Len(model_result) :
      is_rational_value(ValAt(k)) =>
        /\ response.status = 200
        /\ k <= Len(model_array)
        /\ WithinPrecision(ValAt(k), model_array[k].value)

EngineOrder == <<"Solver", "from_string", "check", "model">>

Called(name) == \E k \in 1..Len(calls) : calls[k] = name

\* C10: within a request the engine calls are made in the order Solver,
\* from_string, check, model, each at most once; check only after a submission
\* that did not fail, model only after a sat verdict, and a failed call is the
\* request's last.
C10_EngineCallsInOrderOnce ==
  /\ Len(calls) <= Len(EngineOrder)
  /\ \A k \in 1..Len(calls) : calls[k] = EngineOrder[k]
  /\ Called("check") => ParseOK(request)
  /\ Called("model") => check_result = "sat"
  /\ check_result \in {"unsat", "unknown"} => ~Called("model")
  /\ pc \in {"except", "done"} /\ exc # <<>> =>
       calls = SubSeq(EngineOrder, 1,
                      IF ~ParseOK(request) THEN Len(<<"Solver", "from_string">>)
                      ELSE IF check_result = "none"
                           THEN Len(<<"Solver", "from_string", "check">>)
                           ELSE Len(EngineOrder))

\* C10 witness: an unsat verdict answered without a model() call.
C10_Witness ==
  /\ pc = "done" /\ check_result = "unsat"
  /\ calls = <<"Solver", "from_string", "check">>
====
